---- MODULE Spec2Model ----
(***************************************************************************)
(* A model of brynet's AsyncConnector (src/src/brynet/net/Connector.cpp):  *)
(* the connector object, its worker thread, the requests in flight and the *)
(* sockets they own; and of the session pair of the WebBinaryProxy example *)
(* (src/examples/WebBinaryProxy.cpp).                                      *)
(***************************************************************************)
EXTENDS Integers, Sequences, FiniteSets, TLC

\* ------------------------------------------------------------------ bounds
MaxReq == 1        \* asyncConnect calls that are accepted
MaxFd == 1         \* socket descriptors the process can hold
MaxTime == 1       \* ticks of the steady clock
MaxChunks == 3     \* chunks the proxy's client sends
NLoops == 2        \* worker loops of the proxy's TcpService
MaxCtx == 2        \* SSL_CTX objects the TLS library hands out

Reqs == 1..MaxReq
Fds == 1..MaxFd
\* connect timeouts a caller passes: zero, and one the clock can outlast
Timeouts == {0, MaxTime}
IpLiterals == {"valid", "invalid"}

\* ------------------------------------------------------------------- state
VARIABLES
    mThread,          \* AsyncConnector::mThread   (TRUE: non-null)
    mIsRun,           \* AsyncConnector::mIsRun    ("null", or the bool it points to)
    mWorkInfo,        \* AsyncConnector::mWorkInfo (TRUE: non-null)
    mEventLoop,       \* AsyncConnector::mEventLoop (TRUE: non-null)
    mThreadGuard,     \* the mutex: "free", or "stop" while stopWorkerThread joins
    asyncProcs,       \* the event loop's queue of posted procedures
    snapshot,         \* the procedures the current loop() call is running
    mConnectingInfos, \* ConnectorWorkInfo::mConnectingInfos, fd -> ConnectingInfo
    mConnectingFds,   \* ConnectorWorkInfo::mConnectingFds
    mFDSet,           \* fds registered for WriteCheck in ConnectorWorkInfo::mFDSet
    pc,               \* where the worker thread is ("blocked": waiting for
                      \* mThreadGuard inside a callback)
    fdSt,             \* every descriptor: "free", "connecting", "w_ok" / "w_err"
                      \* (writable, SO_ERROR zero / nonzero), "user" (owned by
                      \* the TcpSocket given to a success callback), "leaked"
    now,              \* std::chrono::steady_clock
    req,              \* every accepted request, with the callbacks it has seen
    nreq,             \* how many requests were accepted
    ret,              \* the last API call and how it ended (seq flips per call)
    crashed,          \* the process died (null dereference)
    alive,            \* the AsyncConnector object has not been destructed
    threads,          \* worker threads that were started and not yet joined
    proxy,            \* one WebBinaryProxy session pair (a record, see ProxyInit)
    ssl               \* one SSLHelper object (a record, see SSLInit)

connVars == <<mThread, mIsRun, mWorkInfo, mEventLoop, mThreadGuard, threads>>
loopVars == <<asyncProcs, snapshot>>
workVars == <<mConnectingInfos, mConnectingFds, mFDSet>>
vars == <<mThread, mIsRun, mWorkInfo, mEventLoop, mThreadGuard, asyncProcs,
          snapshot, mConnectingInfos, mConnectingFds, mFDSet, pc, fdSt, now,
          req, nreq, ret, crashed, alive, threads, proxy, ssl>>
connectorVars == <<mThread, mIsRun, mWorkInfo, mEventLoop, mThreadGuard,
                   asyncProcs, snapshot, mConnectingInfos, mConnectingFds,
                   mFDSet, pc, fdSt, now, req, nreq, ret, crashed, alive,
                   threads>>

\* ConnectingInfo() : a default-constructed entry stands for "no entry"
NoInfo == [req |-> 0, startConnectTime |-> 0, timeout |-> 0]

\* n: what SocketCreate / connect answered for it; closed: how often the
\* connector closed the fd it created for it
NoReq == [ip |-> "valid", timeout |-> 0, successCB |-> FALSE, failedCB |-> FALSE,
          succ |-> 0, fail |-> 0, path |-> "none", addr |-> "none",
          n |-> "none", closed |-> 0]

\* the procedure stopWorkerThread posts: *mIsRun = false
StopProc == [type |-> "stop", req |-> 0]
ConnectProc(r) == [type |-> "connect", req |-> r]

\* ------------------------------------------------------ helpers of the code
\* mutant of pushAsyncProc: the procedure is put at the head of the queue
pushAsyncProcFirst(q, p) == <<p>> \o q

\* EventLoop::pushAsyncProc : appends to the loop's queue (FIFO)
pushAsyncProc(q, p) == Append(q, p)

\* brynet::net::base::SocketClose(fd) : the descriptor goes back to the OS
SocketClose(st, fd) == [st EXCEPT ![fd] = "free"]

\* ~TcpSocket : a TcpSocket that is dropped closes the fd it owns
TcpSocketDrop(st, fd) == SocketClose(st, fd)

\* handing TcpSocket::Create(fd) to the success callback: the user owns the fd
TcpSocketMove(st, fd) == [st EXCEPT ![fd] = "user"]

\* the connector as a caller sees it
ConnState ==
    IF mThread THEN "running"
    ELSE IF mIsRun = "null" THEN "stopped"
    ELSE "never"

\* a request is queued while its procedure waits in the loop
Queued(r) ==
    \/ \E i \in 1..Len(asyncProcs) : asyncProcs[i] = ConnectProc(r)
    \/ \E i \in 1..Len(snapshot) : snapshot[i] = ConnectProc(r)
\* a request is pending while mConnectingInfos holds an entry of it
Pending(r) == \E fd \in Fds : mConnectingInfos[fd].req = r
Accepted(r) == r <= nreq

\* the callbacks: invoked only when non-null, as everywhere in the code
InvokeSuccess(q, site) ==
    IF q.successCB THEN [q EXCEPT !.succ = @ + 1, !.path = site] ELSE q
InvokeFailed(q, site) ==
    IF q.failedCB THEN [q EXCEPT !.fail = @ + 1, !.path = site] ELSE q
\* the connector has closed the fd of the request
Closed(q) == [q EXCEPT !.closed = @ + 1]

\* the WebBinaryProxy pair before the backend connect has completed
ProxyInit ==
    [share |-> "null",     \* *shareBackendSession
     cache |-> <<>>,       \* *cachePacket
     ud |-> 1,             \* the frontend session's user data
     recv |-> 0,           \* chunks the client has delivered, numbered 1, 2, ..
     dpc |-> "idle",       \* the frontend data callback: "idle" or "branch"
     local |-> "null",     \* its local backendSession
     chunk |-> 0,          \* the chunk it was called with
     epc |-> "connecting", \* the backend enter callback
     n |-> 0,              \* the end of its range-for, taken when the loop starts
     i |-> 0,              \* the position of its range-for
     loop |-> 0,           \* the loop of the backend (the frontend's is loop 0)
     posted |-> <<>>,      \* sends posted to the backend's loop by another thread
     sent |-> <<>>,        \* the backend connection's send queue
     crashed |-> FALSE,    \* the process died (invalidated iterator)
     fpc |-> "open",       \* the frontend disconnect callback: "open" (not
                           \* called), "read" (line 111 done), "done"
     flocal |-> "null",    \* its local backendSession
     bpc |-> "unset",      \* the backend disconnect callback: "unset", "set"
                           \* (line 64 done), "cleared" (line 65 done), "ran"
     bdisc |-> FALSE,      \* postDisConnect was called on the backend
     fdisc |-> FALSE]      \* postDisConnect was called on the frontend

\* SSLHelper::SSLHelper : no context; SSL_CTX objects are numbered from 1
SSLInit ==
    [mOpenSSLCTX |-> 0,    \* SSLHelper::mOpenSSLCTX (0: nullptr)
     made |-> 0,           \* SSL_CTX_new calls that returned an object
     live |-> {},          \* the SSL_CTX objects made and not freed
     badfree |-> FALSE,    \* SSL_CTX_free was called on a freed object
     crashed |-> FALSE,    \* the process died (null SSL_CTX dereferenced)
     expect |-> FALSE,     \* the last initSSL on an empty helper returned
                           \* true and no destroySSL was called since
     ret |-> [op |-> "none", held |-> 0, certificate |-> "", privatekey |-> "",
              chain |-> FALSE, key |-> FALSE, check |-> FALSE, res |-> FALSE]]

\* --------------------------------------------------------------------- Init
Init ==
    /\ mThread = FALSE
    /\ mIsRun = "false"
    /\ mWorkInfo = FALSE
    /\ mEventLoop = FALSE
    /\ mThreadGuard = "free"
    /\ asyncProcs = <<>>
    /\ snapshot = <<>>
    /\ mConnectingInfos = [fd \in Fds |-> NoInfo]
    /\ mConnectingFds = {}
    /\ mFDSet = {}
    /\ pc = "none"
    /\ fdSt = [fd \in Fds |-> "free"]
    /\ now = 0
    /\ req = [r \in Reqs |-> NoReq]
    /\ nreq = 0
    /\ ret = [op |-> "none", pre |-> "never", res |-> "none", nullcb |-> FALSE,
             seq |-> 0]
    /\ crashed = FALSE
    /\ alive = TRUE
    /\ threads = 0
    /\ proxy = ProxyInit
    /\ ssl = SSLInit

\* an API call can start: the object exists, the mutex is free
CanCall == alive /\ ~crashed /\ mThreadGuard = "free"

\* ------------------------------------------------------------- asyncConnect
\* mutant of NullCallback: the throw only when both callbacks are null
NullCallbackBoth(successCB, failedCB) == ~successCB /\ ~failedCB

\* line 393: the callbacks that make asyncConnect throw
NullCallback(successCB, failedCB) == ~successCB \/ ~failedCB

AsyncConnect(ip, timeout, successCB, failedCB) ==
    /\ CanCall
    /\ IF NullCallback(successCB, failedCB)
       THEN \* throw std::runtime_error("all callback is nullptr")
            /\ ret' = [op |-> "asyncConnect", pre |-> ConnState,
                       res |-> "throw_null_callback", nullcb |-> ~successCB \/ ~failedCB,
                       seq |-> 1 - ret.seq]
            /\ UNCHANGED <<asyncProcs, req, nreq, crashed>>
       ELSE IF mIsRun = "null"
       THEN \* *mIsRun on a null shared_ptr: undefined behaviour
            /\ \E out \in {"crash", "throw_already_stop"} :
                 /\ ret' = [op |-> "asyncConnect", pre |-> ConnState,
                            res |-> out, nullcb |-> ~successCB \/ ~failedCB,
                       seq |-> 1 - ret.seq]
                 /\ crashed' = (out = "crash")
            /\ UNCHANGED <<asyncProcs, req, nreq>>
       ELSE IF mIsRun = "false"
       THEN \* throw std::runtime_error("work thread already stop")
            /\ ret' = [op |-> "asyncConnect", pre |-> ConnState,
                       res |-> "throw_already_stop", nullcb |-> ~successCB \/ ~failedCB,
                       seq |-> 1 - ret.seq]
            /\ UNCHANGED <<asyncProcs, req, nreq, crashed>>
       ELSE /\ nreq < MaxReq
            /\ nreq' = nreq + 1
            /\ req' = [req EXCEPT ![nreq + 1] =
                         [NoReq EXCEPT !.ip = ip, !.timeout = timeout,
                                       !.successCB = successCB,
                                       !.failedCB = failedCB]]
            /\ asyncProcs' = pushAsyncProc(asyncProcs, ConnectProc(nreq + 1))
            /\ ret' = [op |-> "asyncConnect", pre |-> ConnState,
                       res |-> "returned", nullcb |-> ~successCB \/ ~failedCB,
                       seq |-> 1 - ret.seq]
            /\ UNCHANGED crashed
    /\ UNCHANGED <<connVars, snapshot, workVars, pc, fdSt, now, alive>>
    /\ UNCHANGED <<proxy, ssl>>

\* -------------------------------------------------------- startWorkerThread
\* mutant of AlreadyStarted: the started check left out
AlreadyStartedIgnored == FALSE

\* line 325: mThread != nullptr
AlreadyStarted == mThread

StartWorkerThread ==
    /\ CanCall
    /\ ret' = [op |-> "start", pre |-> ConnState, res |-> "returned",
               nullcb |-> FALSE,
                       seq |-> 1 - ret.seq]
    /\ IF AlreadyStarted
       THEN UNCHANGED <<connVars, loopVars, workVars, pc>>
       ELSE /\ mIsRun' = "true"
            /\ mWorkInfo' = TRUE
            /\ mConnectingInfos' = [fd \in Fds |-> NoInfo]
            /\ mConnectingFds' = {}
            /\ mFDSet' = {}
            /\ mEventLoop' = TRUE
            /\ asyncProcs' = <<>>
            /\ snapshot' = <<>>
            /\ mThread' = TRUE
            /\ threads' = threads + 1
            /\ pc' = "while"
            /\ UNCHANGED mThreadGuard
    /\ UNCHANGED <<fdSt, now, req, nreq, crashed, alive>>
    /\ UNCHANGED <<proxy, ssl>>

\* --------------------------------------------------------- stopWorkerThread
\* mutant of NotStarted: the not-started check left out
NotStartedIgnored == FALSE

\* line 356: mThread == nullptr
NotStarted == ~mThread

\* lines 348-370: up to the join, which blocks with the mutex held
StopBody(op) ==
    /\ CanCall
    /\ IF NotStarted
       THEN /\ ret' = [op |-> op, pre |-> ConnState, res |-> "returned",
                       nullcb |-> FALSE,
                       seq |-> 1 - ret.seq]
            /\ UNCHANGED <<mThreadGuard, asyncProcs>>
       ELSE /\ asyncProcs' = pushAsyncProc(asyncProcs, StopProc)
            /\ mThreadGuard' = "stop"
            /\ ret' = [op |-> op, pre |-> ConnState, res |-> "joining",
                       nullcb |-> FALSE,
                       seq |-> 1 - ret.seq]
    /\ UNCHANGED <<mThread, mIsRun, mWorkInfo, mEventLoop, snapshot, workVars,
                   pc, fdSt, now, req, nreq, crashed, threads>>
    /\ UNCHANGED <<proxy, ssl>>

StopWorkerThread == StopBody("stop") /\ UNCHANGED alive

\* ~AsyncConnector : stopWorkerThread(), and the object is gone
Destructor == StopBody("dtor") /\ alive' = FALSE

\* lines 367-378: the join returns once the worker thread has ended
StopJoin ==
    /\ mThreadGuard = "stop"
    /\ pc = "exited"
    /\ mEventLoop' = FALSE
    /\ mWorkInfo' = FALSE
    /\ mIsRun' = "null"
    /\ mThread' = FALSE
    /\ threads' = threads - 1
    /\ mThreadGuard' = "free"
    /\ pc' = "none"
    /\ ret' = [ret EXCEPT !.res = "returned"]
    /\ UNCHANGED <<loopVars, workVars, fdSt, now, req, nreq, crashed,
                   alive>>
    /\ UNCHANGED <<proxy, ssl>>

\* --------------------------------------------------------- the worker thread
\* line 339: while (*isRun)
WorkerWhile ==
    /\ ~crashed
    /\ pc = "while"
    /\ pc' = IF mIsRun = "true" THEN "loop" ELSE "failall"
    /\ UNCHANGED <<connVars, loopVars, workVars, fdSt, now, req, nreq,
                   ret, crashed, alive>>
    /\ UNCHANGED <<proxy, ssl>>

\* EventLoop::loop : the queue is swapped out and run; what is posted meanwhile
\* waits for the next call
LoopSnapshot(q) == [run |-> q, left |-> <<>>]

\* line 312: eventLoop->loop(10ms) returns after at most its timeout
RunOnceLoop ==
    /\ ~crashed
    /\ pc = "loop"
    /\ snapshot' = LoopSnapshot(asyncProcs).run
    /\ asyncProcs' = LoopSnapshot(asyncProcs).left
    /\ pc' = IF snapshot' = <<>> THEN "status" ELSE "drain"
    /\ UNCHANGED <<connVars, workVars, fdSt, now, req, nreq, ret,
                   crashed, alive>>
    /\ UNCHANGED <<proxy, ssl>>

\* the worker has run the head of the snapshot
ProcDone ==
    /\ snapshot' = Tail(snapshot)
    /\ pc' = IF Tail(snapshot) = <<>> THEN "status" ELSE "drain"

\* lines 361-363: the procedure stopWorkerThread posted
RunStopProc ==
    /\ ~crashed
    /\ pc = "drain"
    /\ snapshot # <<>>
    /\ Head(snapshot) = StopProc
    /\ mIsRun' = "false"
    /\ ProcDone
    /\ UNCHANGED <<mThread, mWorkInfo, mEventLoop, mThreadGuard, asyncProcs,
                   workVars, fdSt, now, req, nreq, ret, crashed, alive, threads>>
    /\ UNCHANGED <<proxy, ssl>>

\* line 259: inet_pton's result is not looked at; a literal it rejects leaves
\* sin_addr as the stack had it
InetPton(ip) == IF ip = "valid" THEN "parsed" ELSE "uninitialised"

\* line 262: what a non-blocking connect can answer
ConnectResults == {"connected", "inprogress", "error"}

\* mutant of InProgress: a connect in progress taken for an error
InProgressNever(n) == FALSE

\* line 268: sErrno is EINPROGRESS (WSAEWOULDBLOCK)
InProgress(n) == n = "inprogress"

\* lines 236-297
ProcessConnect(r) ==
    /\ ~crashed
    /\ pc = "drain"
    /\ snapshot # <<>>
    /\ Head(snapshot) = ConnectProc(r)
    /\ ProcDone
    /\ \/ \* SocketCreate fails: goto FAILED
          /\ req' = [req EXCEPT ![r] =
                       InvokeFailed([@ EXCEPT !.n = "create_failed"],
                                    "sync_failed")]
          /\ UNCHANGED <<workVars, fdSt>>
       \/ \E clientfd \in {fd \in Fds : fdSt[fd] = "free"} :
          \E n \in ConnectResults :
            LET q == [req[r] EXCEPT !.addr = InetPton(req[r].ip), !.n = n] IN
            CASE n = "connected" ->
                   \* goto SUCCESS
                   /\ req' = [req EXCEPT ![r] = InvokeSuccess(q, "sync_success")]
                   /\ fdSt' = IF q.successCB
                              THEN TcpSocketMove(fdSt, clientfd)
                              ELSE [fdSt EXCEPT ![clientfd] = "leaked"]
                   /\ UNCHANGED workVars
              [] n # "connected" /\ ~InProgress(n) ->
                   \* SocketClose(clientfd); goto FAILED
                   /\ req' = [req EXCEPT ![r] =
                                InvokeFailed(Closed(q), "sync_failed")]
                   /\ fdSt' = SocketClose([fdSt EXCEPT ![clientfd] = "connecting"],
                                          clientfd)
                   /\ UNCHANGED workVars
              [] n # "connected" /\ InProgress(n) ->
                   /\ req' = [req EXCEPT ![r] = q]
                   /\ fdSt' = [fdSt EXCEPT ![clientfd] = "connecting"]
                   /\ mConnectingInfos' =
                        [mConnectingInfos EXCEPT ![clientfd] =
                           [req |-> r, startConnectTime |-> now,
                            timeout |-> req[r].timeout]]
                   /\ mConnectingFds' = mConnectingFds \cup {clientfd}
                   /\ mFDSet' = mFDSet \cup {clientfd}
    /\ UNCHANGED <<connVars, asyncProcs, now, nreq, ret, crashed, alive>>
    /\ UNCHANGED <<proxy, ssl>>

\* ox_fdset_check(mFDSet, fd, WriteCheck) after a poll
FdsetCheck(fd) == fd \in mFDSet /\ fdSt[fd] \in {"w_ok", "w_err"}

\* ox_fdset_poll(mFDSet, 0) : how many registered fds are ready
FdsetPoll == Cardinality({fd \in Fds : FdsetCheck(fd)})

\* getsockopt(fd, SOL_SOCKET, SO_ERROR) : answers for every open socket
GetSockOptRc(fd) == IF fdSt[fd] = "free" THEN -1 ELSE 0
SoError(fd) == IF fdSt[fd] = "w_err" THEN 1 ELSE 0

\* mutant of IsConnectSuccess: the SO_ERROR test inverted
IsConnectSuccessInverted(fd) == FdsetCheck(fd) /\ SoError(fd) # 0

\* lines 119-134
IsConnectSuccess(fd) ==
    IF ~FdsetCheck(fd) THEN FALSE
    ELSE IF GetSockOptRc(fd) = -1 THEN FALSE
    ELSE SoError(fd) = 0

\* mutant of EraseFound: the resolved entries stay in the table
EraseFoundForgotten(found) == mConnectingInfos

\* line 185: mConnectingInfos.erase(it), for every entry that was resolved
EraseFound(found) ==
    [fd \in Fds |-> IF fd \in found THEN NoInfo ELSE mConnectingInfos[fd]]

\* the requests whose entries are among fds
ReqsOf(fds) == {mConnectingInfos[fd].req : fd \in fds} \ {0}

\* lines 136-187
CheckConnectStatus ==
    /\ ~crashed
    /\ pc = "status"
    /\ pc' = "timeout"
    /\ IF FdsetPoll <= 0
       THEN UNCHANGED <<workVars, fdSt, req>>
       ELSE LET total_fds == {v \in mConnectingFds : FdsetCheck(v)}
                success_fds == {v \in total_fds : IsConnectSuccess(v)}
                found == {fd \in total_fds : mConnectingInfos[fd] # NoInfo}
                moved == {fd \in found \cap success_fds :
                            req[mConnectingInfos[fd].req].successCB}
            IN  /\ mFDSet' = mFDSet \ total_fds
                /\ mConnectingFds' = mConnectingFds \ total_fds
                /\ mConnectingInfos' = EraseFound(found)
                /\ fdSt' = [fd \in Fds |->
                              IF fd \in moved THEN TcpSocketMove(fdSt, fd)[fd]
                              ELSE IF fd \in found THEN TcpSocketDrop(fdSt, fd)[fd]
                              ELSE fdSt[fd]]
                /\ req' = [r \in Reqs |->
                             IF r \in ReqsOf(moved)
                             THEN InvokeSuccess(req[r], "ready_success")
                             ELSE IF r \in ReqsOf(found \cap success_fds)
                             THEN Closed(InvokeSuccess(req[r], "ready_success"))
                             ELSE IF r \in ReqsOf(found)
                             THEN Closed(InvokeFailed(req[r], "ready_failed"))
                             ELSE req[r]]
    /\ UNCHANGED <<connVars, loopVars, now, nreq, ret, crashed, alive>>
    /\ UNCHANGED <<proxy, ssl>>

\* mutant of Expired: the scan takes every entry for expired
ExpiredAlways(info, t) == TRUE

\* mutant of Expired: expired only when strictly past the timeout
ExpiredLate(info, t) == ~((t - info.startConnectTime) <= info.timeout)

\* line 194: the entry has used up its timeout
Expired(info, t) == ~((t - info.startConnectTime) < info.timeout)

\* mutant of ClosedFds: the scans drop their entries without closing the fd
ClosedFdsNone(fds) == {}

\* lines 208 and 228: the fds a scan closes are those of the entries it drops
ClosedFds(fds) == fds

\* lines 200-212 and 220-232: one entry is dropped, closed and failed
FailEntries(fds, site) ==
    /\ mFDSet' = mFDSet \ fds
    /\ mConnectingFds' = mConnectingFds \ fds
    /\ mConnectingInfos' =
         [fd \in Fds |-> IF fd \in fds THEN NoInfo ELSE mConnectingInfos[fd]]
    /\ fdSt' = [fd \in Fds |-> IF fd \in ClosedFds(fds)
                               THEN SocketClose(fdSt, fd)[fd]
                               ELSE fdSt[fd]]
    /\ req' = [r \in Reqs |->
                 IF r \in ReqsOf(ClosedFds(fds))
                 THEN InvokeFailed(Closed(req[r]), site)
                 ELSE IF r \in ReqsOf(fds)
                 THEN InvokeFailed(req[r], site)
                 ELSE req[r]]

\* lines 189-214
CheckTimeout ==
    /\ ~crashed
    /\ pc = "timeout"
    /\ pc' = "while"
    /\ FailEntries({fd \in Fds : /\ mConnectingInfos[fd] # NoInfo
                                 /\ Expired(mConnectingInfos[fd], now)},
                   "timeout")
    /\ UNCHANGED <<connVars, loopVars, now, nreq, ret, crashed, alive>>
    /\ UNCHANGED <<proxy, ssl>>

\* mutant of CauseAllFailed: the thread ends without failing what is pending
CauseAllFailedSkipped ==
    /\ ~crashed
    /\ pc = "failall"
    /\ pc' = "exited"
    /\ UNCHANGED <<connVars, loopVars, workVars, fdSt, now, req, nreq, ret,
                   crashed, alive>>
    /\ UNCHANGED <<proxy, ssl>>

\* lines 216-234, called at line 344 when the loop is left
CauseAllFailed ==
    /\ ~crashed
    /\ pc = "failall"
    /\ pc' = "exited"
    /\ FailEntries({fd \in Fds : mConnectingInfos[fd] # NoInfo}, "shutdown")
    /\ UNCHANGED <<connVars, loopVars, now, nreq, ret, crashed, alive>>
    /\ UNCHANGED <<proxy, ssl>>

\* ----------------------------------------------------------- the environment
\* a connect in progress ends: the fd turns writable, SO_ERROR zero or not
ConnectCompletes(fd, e) ==
    /\ ~crashed
    /\ fdSt[fd] = "connecting"
    /\ fdSt' = [fdSt EXCEPT ![fd] = e]
    /\ UNCHANGED <<connVars, loopVars, workVars, pc, now, req, nreq,
                   ret, crashed, alive>>
    /\ UNCHANGED <<proxy, ssl>>

\* the user drops the TcpSocket a success callback was given
UserClose(fd) ==
    /\ ~crashed
    /\ fdSt[fd] = "user"
    /\ fdSt' = TcpSocketDrop(fdSt, fd)
    /\ UNCHANGED <<connVars, loopVars, workVars, pc, now, req, nreq,
                   ret, crashed, alive>>
    /\ UNCHANGED <<proxy, ssl>>

\* the steady clock advances
Tick ==
    /\ ~crashed
    /\ now < MaxTime
    /\ now' = now + 1
    /\ UNCHANGED <<connVars, loopVars, workVars, pc, fdSt, req, nreq,
                   ret, crashed, alive>>
    /\ UNCHANGED <<proxy, ssl>>

\* --------------------------------------------------------------------- Next
Next ==
    \/ \E ip \in IpLiterals, t \in Timeouts, s \in BOOLEAN, f \in BOOLEAN :
         AsyncConnect(ip, t, s, f)
    \/ StartWorkerThread
    \/ StopWorkerThread
    \/ Destructor
    \/ StopJoin
    \/ WorkerWhile
    \/ RunOnceLoop
    \/ RunStopProc
    \/ \E r \in Reqs : ProcessConnect(r)
    \/ CheckConnectStatus
    \/ CheckTimeout
    \/ CauseAllFailed
    \/ \E fd \in Fds, e \in {"w_ok", "w_err"} : ConnectCompletes(fd, e)
    \/ \E fd \in Fds : UserClose(fd)
    \/ Tick

Spec == Init /\ [][Next]_vars

\* ------------------------------------- callbacks that call asyncConnect
\* A success or failure callback may call asyncConnect on its own connector.
\* While mThreadGuard is free that call is the AsyncConnect step above. While
\* stopWorkerThread holds mThreadGuard and waits in join(), the call waits at
\* lines 386-390 for the mutex, on the worker thread, inside the callback.

\* lines 386-390: the lock asyncConnect takes is held by a stop that joins
LockHeldByStop == mThreadGuard = "stop"

\* std::set and std::map are walked in ascending order of the fd
MinFd(S) == CHOOSE fd \in S : \A o \in S : fd <= o

\* lines 285-296: the callback processConnect invokes does not return
ProcessConnectReenters(r) ==
    /\ ~crashed
    /\ LockHeldByStop
    /\ pc = "drain"
    /\ snapshot # <<>>
    /\ Head(snapshot) = ConnectProc(r)
    /\ pc' = "blocked"
    /\ \/ /\ req' = [req EXCEPT ![r] =
                       InvokeFailed([@ EXCEPT !.n = "create_failed"],
                                    "sync_failed")]
          /\ UNCHANGED fdSt
       \/ \E clientfd \in {fd \in Fds : fdSt[fd] = "free"} :
          \E n \in {"connected", "error"} :
            LET q == [req[r] EXCEPT !.addr = InetPton(req[r].ip), !.n = n] IN
            IF n = "connected"
            THEN /\ req' = [req EXCEPT ![r] = InvokeSuccess(q, "sync_success")]
                 /\ fdSt' = TcpSocketMove(fdSt, clientfd)
            ELSE /\ req' = [req EXCEPT ![r] =
                              InvokeFailed(Closed(q), "sync_failed")]
                 /\ UNCHANGED fdSt
    /\ UNCHANGED <<connVars, loopVars, workVars, now, nreq, ret, crashed,
                   alive>>
    /\ UNCHANGED <<proxy, ssl>>

\* lines 158-182: the first callback checkConnectStatus invokes does not
\* return; line 185 and the rest of the loop are not reached
CheckConnectStatusReenters ==
    /\ ~crashed
    /\ LockHeldByStop
    /\ pc = "status"
    /\ FdsetPoll > 0
    /\ LET total_fds == {v \in mConnectingFds : FdsetCheck(v)}
           found == {fd \in total_fds : mConnectingInfos[fd] # NoInfo}
       IN  /\ found # {}
           /\ LET fd == MinFd(found)
                  seen == {v \in total_fds : v <= fd}
                  r == mConnectingInfos[fd].req
              IN  /\ mFDSet' = mFDSet \ seen
                  /\ mConnectingFds' = mConnectingFds \ seen
                  /\ IF IsConnectSuccess(fd)
                     THEN /\ fdSt' = TcpSocketMove(fdSt, fd)
                          /\ req' = [req EXCEPT ![r] =
                                       InvokeSuccess(@, "ready_success")]
                     ELSE /\ UNCHANGED fdSt
                          /\ req' = [req EXCEPT ![r] =
                                       InvokeFailed(@, "ready_failed")]
    /\ pc' = "blocked"
    /\ UNCHANGED <<connVars, loopVars, mConnectingInfos, now, nreq, ret,
                   crashed, alive>>
    /\ UNCHANGED <<proxy, ssl>>

\* lines 200-212: the first callback checkTimeout invokes does not return
CheckTimeoutReenters ==
    /\ ~crashed
    /\ LockHeldByStop
    /\ pc = "timeout"
    /\ LET expired == {fd \in Fds : /\ mConnectingInfos[fd] # NoInfo
                                    /\ Expired(mConnectingInfos[fd], now)}
       IN  /\ expired # {}
           /\ FailEntries({MinFd(expired)}, "timeout")
    /\ pc' = "blocked"
    /\ UNCHANGED <<connVars, loopVars, now, nreq, ret, crashed, alive>>
    /\ UNCHANGED <<proxy, ssl>>

\* lines 220-232: the first callback causeAllFailed invokes does not return
CauseAllFailedReenters ==
    /\ ~crashed
    /\ LockHeldByStop
    /\ pc = "failall"
    /\ LET pending == {fd \in Fds : mConnectingInfos[fd] # NoInfo}
       IN  /\ pending # {}
           /\ FailEntries({MinFd(pending)}, "shutdown")
    /\ pc' = "blocked"
    /\ UNCHANGED <<connVars, loopVars, now, nreq, ret, crashed, alive>>
    /\ UNCHANGED <<proxy, ssl>>

NextReentrant ==
    \/ Next
    \/ \E r \in Reqs : ProcessConnectReenters(r)
    \/ CheckConnectStatusReenters
    \/ CheckTimeoutReenters
    \/ CauseAllFailedReenters

\* the connector with callbacks that may call asyncConnect on it
SpecReentrant == Init /\ [][NextReentrant]_vars

\* ============================================================ WebBinaryProxy
\* src/examples/WebBinaryProxy.cpp: one frontend session, the backend session
\* connected for it, and the two shared slots their callbacks capture.

\* the enter callback is between its first and its last statement
EnterRunning == proxy.epc \in {"publish", "begin", "flush", "clear"}
\* a callback of the frontend / of the backend is between two of its statements
FrontendRunning == proxy.dpc # "idle" \/ proxy.fpc = "read"
BackendRunning == EnterRunning \/ proxy.bpc = "cleared"
\* callbacks of one loop run one after the other; loops run in parallel
FrontendMayRun ==
    /\ ~proxy.crashed
    /\ ~FrontendRunning
    /\ proxy.loop = 0 => ~BackendRunning
BackendMayRun ==
    /\ ~proxy.crashed
    /\ ~BackendRunning
    /\ proxy.loop = 0 => ~FrontendRunning

\* TcpConnection::send : on the owning loop's thread the bytes are queued at
\* once; from another thread the send is posted to the owning loop
Send(px, c, fromLoop) ==
    IF fromLoop = px.loop THEN [px EXCEPT !.sent = Append(@, c)]
    ELSE [px EXCEPT !.posted = Append(@, c)]

\* lines 47, 81-83: the connect completed; TcpService::addTcpConnection puts
\* the backend socket on one of its loops and posts the enter callback there
BackendConnected(l) ==
    /\ ~proxy.crashed
    /\ proxy.epc = "connecting"
    /\ proxy' = [proxy EXCEPT !.epc = "posted", !.loop = l]
    /\ UNCHANGED <<connectorVars, ssl>>

\* lines 49-54: the enter callback starts; a closed frontend ends it
EnterCheck ==
    /\ BackendMayRun
    /\ proxy.epc = "posted"
    /\ proxy' = IF proxy.ud = -1
                THEN [proxy EXCEPT !.bdisc = TRUE, !.epc = "done"]
                ELSE [proxy EXCEPT !.epc = "publish"]
    /\ UNCHANGED <<connectorVars, ssl>>

\* line 56: *shareBackendSession = backendSession
EnterPublish ==
    /\ ~proxy.crashed
    /\ proxy.epc = "publish"
    /\ proxy' = [proxy EXCEPT !.share = "backend", !.epc = "begin"]
    /\ UNCHANGED <<connectorVars, ssl>>

\* line 58: the range-for takes begin() and end() of *cachePacket
EnterLoopBegin ==
    /\ ~proxy.crashed
    /\ proxy.epc = "begin"
    /\ proxy' = [proxy EXCEPT !.n = Len(proxy.cache), !.i = 1,
                              !.epc = IF Len(proxy.cache) = 0 THEN "clear"
                                      ELSE "flush"]
    /\ UNCHANGED <<connectorVars, ssl>>

\* lines 58-61: backendSession->send(p) for the next cached packet
EnterFlush ==
    /\ ~proxy.crashed
    /\ proxy.epc = "flush"
    /\ proxy' = [Send(proxy, proxy.cache[proxy.i], proxy.loop) EXCEPT
                   !.i = proxy.i + 1,
                   !.epc = IF proxy.i + 1 > proxy.n THEN "clear" ELSE "flush"]
    /\ UNCHANGED <<connectorVars, ssl>>

\* lines 62-79: cachePacket->clear(), the backend's callbacks are set, return
EnterClear ==
    /\ ~proxy.crashed
    /\ proxy.epc = "clear"
    /\ proxy' = [proxy EXCEPT !.cache = <<>>, !.bpc = "set", !.epc = "done"]
    /\ UNCHANGED <<connectorVars, ssl>>

\* lines 93-94: the frontend data callback starts and reads the shared slot
DataBegin ==
    /\ FrontendMayRun
    /\ proxy.fpc = "open"
    /\ proxy.dpc = "idle"
    /\ proxy.recv < MaxChunks
    /\ proxy' = [proxy EXCEPT !.recv = @ + 1, !.chunk = proxy.recv + 1,
                              !.local = proxy.share, !.dpc = "branch"]
    /\ UNCHANGED <<connectorVars, ssl>>

\* lines 95-106: cache the chunk, or send it to the backend
\* a push_back while the enter callback's range-for holds iterators may
\* reallocate under them: undefined behaviour
DataEnd ==
    /\ ~proxy.crashed
    /\ proxy.dpc = "branch"
    /\ IF proxy.local = "null"
       THEN \E ub \in IF proxy.epc = "flush" THEN BOOLEAN ELSE {FALSE} :
              proxy' = [proxy EXCEPT !.cache = Append(@, proxy.chunk),
                                     !.dpc = "idle", !.crashed = ub]
       ELSE proxy' = [Send(proxy, proxy.chunk, 0) EXCEPT !.dpc = "idle"]
    /\ UNCHANGED <<connectorVars, ssl>>

\* lines 109-111: the frontend is gone (its client closed, or a
\* postDisConnect was run); its disconnect callback reads the shared slot
FrontDisconnectBegin ==
    /\ FrontendMayRun
    /\ proxy.fpc = "open"
    /\ proxy' = [proxy EXCEPT !.flocal = proxy.share, !.fpc = "read"]
    /\ UNCHANGED <<connectorVars, ssl>>

\* lines 112-117: the backend it saw is disconnected, then setUD(-1)
FrontDisconnectEnd ==
    /\ ~proxy.crashed
    /\ proxy.fpc = "read"
    /\ proxy' = [proxy EXCEPT !.bdisc = @ \/ proxy.flocal # "null",
                              !.ud = -1, !.fpc = "done"]
    /\ UNCHANGED <<connectorVars, ssl>>

\* lines 64-65: the backend is gone (its peer closed, or a postDisConnect was
\* run); its disconnect callback empties the shared slot
BackDisconnectBegin ==
    /\ BackendMayRun
    /\ proxy.bpc = "set"
    /\ proxy' = [proxy EXCEPT !.share = "null", !.bpc = "cleared"]
    /\ UNCHANGED <<connectorVars, ssl>>

\* lines 66-70: the frontend is disconnected unless its user data says closed
BackDisconnectEnd ==
    /\ ~proxy.crashed
    /\ proxy.bpc = "cleared"
    /\ proxy' = [proxy EXCEPT !.fdisc = @ \/ proxy.ud # -1, !.bpc = "ran"]
    /\ UNCHANGED <<connectorVars, ssl>>

\* the backend's loop runs the sends other threads posted to it, in order,
\* between its callbacks
BackendLoopDrain ==
    /\ ~proxy.crashed
    /\ ~BackendRunning
    /\ proxy.posted # <<>>
    /\ proxy' = [proxy EXCEPT !.sent = @ \o proxy.posted, !.posted = <<>>]
    /\ UNCHANGED <<connectorVars, ssl>>

ProxyNext ==
    \/ \E l \in 0..(NLoops - 1) : BackendConnected(l)
    \/ EnterCheck
    \/ EnterPublish
    \/ EnterLoopBegin
    \/ EnterFlush
    \/ EnterClear
    \/ DataBegin
    \/ DataEnd
    \/ FrontDisconnectBegin
    \/ FrontDisconnectEnd
    \/ BackDisconnectBegin
    \/ BackDisconnectEnd
    \/ BackendLoopDrain

SpecProxy == Init /\ [][ProxyNext]_vars

\* ================================================================= SSLHelper
\* src/src/brynet/net/SSLHelper.cpp: one SSLHelper and the SSL_CTX objects of
\* the TLS library.

\* the file names a caller passes: none, or a path
Paths == {"", "pem"}

\* SSL_CTX_free(ctx)
SSLCtxFree(x, ctx) ==
    IF ctx \in x.live THEN [x EXCEPT !.live = @ \ {ctx}]
    ELSE [x EXCEPT !.badfree = TRUE]

\* mutant of CtxHeld: initSSL does not look for a context it already holds
CtxHeldIgnored == FALSE

\* line 88: mOpenSSLCTX != nullptr
CtxHeld == ssl.mOpenSSLCTX # 0

\* lines 84-123; ctxNew, chainOK, keyOK, keyMatches are what SSL_CTX_new,
\* SSL_CTX_use_certificate_chain_file, SSL_CTX_use_PrivateKey_file and
\* SSL_CTX_check_private_key answer
initSSL(certificate, privatekey, ctxNew, chainOK, keyOK, keyMatches) ==
    /\ ~ssl.crashed
    /\ LET call == [op |-> "initSSL", held |-> ssl.mOpenSSLCTX,
                    certificate |-> certificate, privatekey |-> privatekey,
                    chain |-> chainOK, key |-> keyOK, check |-> keyMatches,
                    res |-> FALSE]
           ctx == ssl.made + 1
           made == [ssl EXCEPT !.made = ctx, !.live = @ \cup {ctx},
                               !.mOpenSSLCTX = ctx]
           failed == [SSLCtxFree(made, ctx) EXCEPT !.mOpenSSLCTX = 0,
                                                   !.expect = FALSE,
                                                   !.ret = call]
       IN  IF CtxHeld
           THEN ssl' = [ssl EXCEPT !.ret = call]
           ELSE IF certificate = "" \/ privatekey = ""
           THEN ssl' = [ssl EXCEPT !.expect = FALSE, !.ret = call]
           ELSE /\ ssl.made < MaxCtx
                /\ IF ~ctxNew
                   THEN \* line 98 on the null SSL_CTX_new returned
                        ssl' = [ssl EXCEPT !.mOpenSSLCTX = 0, !.crashed = TRUE,
                                           !.expect = FALSE, !.ret = call]
                   ELSE IF ~chainOK THEN ssl' = failed
                   ELSE IF ~keyOK THEN ssl' = failed
                   ELSE IF ~keyMatches THEN ssl' = failed
                   ELSE ssl' = [made EXCEPT !.expect = TRUE,
                                            !.ret = [call EXCEPT !.res = TRUE]]
    /\ UNCHANGED <<connectorVars, proxy>>

\* lines 125-132
destroySSL ==
    /\ ~ssl.crashed
    /\ LET call == [ssl.ret EXCEPT !.op = "destroySSL",
                                   !.held = ssl.mOpenSSLCTX, !.res = FALSE]
       IN  IF ssl.mOpenSSLCTX # 0
           THEN ssl' = [SSLCtxFree(ssl, ssl.mOpenSSLCTX) EXCEPT
                          !.mOpenSSLCTX = 0, !.expect = FALSE, !.ret = call]
           ELSE ssl' = [ssl EXCEPT !.expect = FALSE, !.ret = call]
    /\ UNCHANGED <<connectorVars, proxy>>

SSLNext ==
    \/ \E certificate \in Paths, privatekey \in Paths, ctxNew \in BOOLEAN,
          chainOK \in BOOLEAN, keyOK \in BOOLEAN, keyMatches \in BOOLEAN :
         initSSL(certificate, privatekey, ctxNew, chainOK, keyOK, keyMatches)
    \/ destroySSL

SpecSSL == Init /\ [][SSLNext]_vars

\* ==================================================================== claims
Callbacks(r) == req[r].succ + req[r].fail
ReadyPaths == {"ready_success", "ready_failed"}
SyncPaths == {"sync_success", "sync_failed"}
\* an API call returned or threw in this step
CallStep == ret'.seq # ret.seq
\* what a call that changes nothing leaves alone
ConnectorUnchanged ==
    UNCHANGED <<connVars, loopVars, workVars, pc, fdSt, req, nreq, crashed>>

\* C1: every accepted request is still with the connector (queued in the loop
\* or pending in mConnectingInfos) with no callback invoked yet, or has left
\* it with exactly one callback invoked exactly once; it is never in both
\* places and never dropped without a callback.
C1_ExactlyOneCallback ==
    \A r \in Reqs :
        /\ ~Accepted(r) => Callbacks(r) = 0 /\ ~Queued(r) /\ ~Pending(r)
        /\ Accepted(r) =>
             /\ ~(Queued(r) /\ Pending(r))
             /\ IF Queued(r) \/ Pending(r) THEN Callbacks(r) = 0
                ELSE /\ Callbacks(r) = 1
                     /\ req[r].succ = 1 <=> req[r].path \in {"sync_success",
                                                             "ready_success"}

\* C1 witness: a request that became pending has been resolved by readiness
C1_Witness ==
    \E r \in Reqs : /\ Accepted(r) /\ ~Queued(r) /\ ~Pending(r)
                    /\ req[r].path = "ready_success"
                    /\ req[r].succ = 1 /\ req[r].fail = 0

\* C2: once stopWorkerThread has returned on a started connector, every
\* accepted request has had its one callback, whatever was pending at
\* shutdown was failed and its fd closed, the pending table and the readiness
\* set are empty, and no worker thread is left that could invoke a callback.
C2_StopLeavesNothingOutstanding ==
    ConnState = "stopped" =>
        /\ \A r \in Reqs : Accepted(r) =>
               /\ Callbacks(r) = 1
               /\ ~Queued(r) /\ ~Pending(r)
               /\ req[r].path = "shutdown" => req[r].fail = 1
        /\ \A fd \in Fds : mConnectingInfos[fd] = NoInfo
        /\ mConnectingFds = {}
        /\ mFDSet = {}
        /\ \A fd \in Fds : fdSt[fd] \in {"free", "user"}
        /\ asyncProcs = <<>> /\ snapshot = <<>>
        /\ pc = "none"

\* C2 witness: the stop has returned and a request was failed by the shutdown
C2_Witness ==
    /\ ConnState = "stopped"
    /\ ret.op = "stop" /\ ret.res = "returned"
    /\ \E r \in Reqs : Accepted(r) /\ req[r].path = "shutdown"

\* C3 (as claimed): asyncConnect with both callbacks on a connector that was
\* started and stopped throws the "work thread already stop" error, and the
\* process goes on.
C3_StoppedConnectorThrows ==
    (ret.op = "asyncConnect" /\ ret.pre = "stopped" /\ ~ret.nullcb) =>
        ret.res = "throw_already_stop" /\ ~crashed

\* C4: an asyncConnect call with a null success or failure callback throws
\* the null-callback error and changes nothing of the connector, its queue,
\* its pending attempts or the sockets, whatever state the connector is in.
C4_NullCallbackRejected ==
    [][(CallStep /\ ret'.op = "asyncConnect" /\ ret'.nullcb) =>
          /\ ret'.res = "throw_null_callback"
          /\ ConnectorUnchanged]_vars

\* C4 witness: the rejection on a connector that was started and stopped
C4_Witness ==
    /\ ret.op = "asyncConnect" /\ ret.nullcb /\ ret.pre = "stopped"
    /\ ret.res = "throw_null_callback"

\* C5: in the status check of a worker iteration, a pending fd that is
\* Write-ready and past its deadline is resolved by readiness: with
\* SO_ERROR = 0 its success callback runs and its failure callback does not,
\* and a failure callback runs in that step only for SO_ERROR nonzero; a
\* request resolved by readiness is never touched again (no timeout failure).
C5_ReadinessWins ==
    [][/\ (pc = "status" /\ pc' # pc) =>
            \A fd \in Fds :
                LET info == mConnectingInfos[fd] IN
                (info # NoInfo /\ FdsetCheck(fd) /\ Expired(info, now)) =>
                    /\ mConnectingInfos'[fd] = NoInfo
                    /\ SoError(fd) = 0 =>
                         /\ req'[info.req].succ = 1
                         /\ req'[info.req].fail = 0
                         /\ req'[info.req].path = "ready_success"
                    /\ req'[info.req].fail > req[info.req].fail =>
                         SoError(fd) # 0
       /\ \A r \in Reqs : req[r].path \in ReadyPaths => req'[r] = req[r]]_vars

\* C5 witness: the status check has just resolved by readiness a request whose
\* timeout of 0 had already run out; the timeout scan of the iteration is next
C5_Witness ==
    /\ pc = "timeout"
    /\ \E r \in Reqs : /\ req[r].path = "ready_success"
                       /\ req[r].timeout = 0
                       /\ req[r].succ = 1 /\ req[r].fail = 0

\* C6 (as claimed): a request with timeout 0 completes inside processConnect
\* or by the timeout scan, and in no other way.
C6_ZeroTimeoutSyncOrTimeout ==
    \A r \in Reqs : (Accepted(r) /\ req[r].timeout = 0) =>
        req[r].path \in {"none", "timeout"} \cup SyncPaths

\* C6 (amended): a request with timeout 0 never outlives the worker iteration
\* whose loop() ran its processConnect: it completes inside processConnect,
\* or by that iteration's readiness check, or by that iteration's timeout
\* scan; it is never pending when an iteration starts and is never left to
\* the shutdown.
C6_ZeroTimeoutFirstIteration ==
    \A r \in Reqs : (Accepted(r) /\ req[r].timeout = 0) =>
        /\ req[r].path \in {"none", "timeout"} \cup SyncPaths \cup ReadyPaths
        /\ Pending(r) => pc \in {"drain", "status", "timeout"}

\* C6 witness: a request with timeout 0 was pending and the scan failed it
C6_Witness ==
    \E r \in Reqs : /\ Accepted(r) /\ req[r].timeout = 0
                    /\ req[r].path = "timeout" /\ req[r].fail = 1

\* C7 (as claimed): for a request whose ip is not a numeric literal no connect
\* is issued and no pending attempt is recorded.
C7_InvalidLiteralNoConnect ==
    \A r \in Reqs : (Accepted(r) /\ req[r].ip = "invalid") =>
        /\ req[r].addr = "none"
        /\ ~Pending(r)
        /\ req[r].succ = 0

\* C8 (as claimed): startWorkerThread on a started connector ends in a usage
\* error at the call site.
C8_SecondStartIsUsageError ==
    (ret.op = "start" /\ ret.pre = "running") => ret.res = "throw_usage_error"

\* C8 (amended): startWorkerThread on a started connector returns normally
\* and changes nothing: no second thread, loop or work table, and the
\* queued and pending requests stay.
C8_SecondStartIsNoOp ==
    [][(CallStep /\ ret'.op = "start" /\ ret'.pre = "running") =>
          /\ ret'.res = "returned"
          /\ ConnectorUnchanged]_vars

\* C8 witness: a start on a running connector that has a request in its hands
C8_Witness ==
    /\ ret.op = "start" /\ ret.pre = "running" /\ ret.res = "returned"
    /\ \E r \in Reqs : Accepted(r)

\* C9: a stopWorkerThread call (the destructor's included) on a connector
\* that was already stopped returns at once: it posts nothing, joins nothing,
\* invokes nothing and leaves the connector as the first stop left it.
C9_StopIdempotent ==
    [][(CallStep /\ ret'.op \in {"stop", "dtor"} /\ ret'.pre = "stopped") =>
          /\ ret'.res = "returned"
          /\ ConnState' = "stopped"
          /\ ConnectorUnchanged]_vars

\* C9 witness: a second stop has returned after a request was served
C9_Witness ==
    /\ ret.op \in {"stop", "dtor"} /\ ret.pre = "stopped"
    /\ ret.res = "returned"
    /\ \E r \in Reqs : Accepted(r) /\ Callbacks(r) = 1

\* what the backend was or will be sent, in order
Forwarded == proxy.sent \o proxy.posted
\* both callbacks have returned and the backend session is published
ProxySettled ==
    /\ proxy.share = "backend" /\ proxy.epc = "done" /\ proxy.dpc = "idle"
    /\ proxy.posted = <<>>

\* C10 (as claimed): every chunk received from the client is sent to the
\* backend at most once and in arrival order, and once the backend session is
\* published and the callbacks have returned every chunk received so far has
\* been sent and the cache is empty.
C10_EveryChunkForwardedInOrder ==
    /\ \A j, k \in 1..Len(Forwarded) : j < k => Forwarded[j] < Forwarded[k]
    /\ ProxySettled =>
         /\ proxy.cache = <<>>
         /\ Forwarded = [j \in 1..proxy.recv |-> j]
         /\ ~proxy.crashed

\* C11 (as claimed): on either close the opposite side is disconnected: once
\* the frontend's disconnect callback and the backend's enter callback have
\* both returned, in whichever order they ran, the backend has been sent
\* postDisConnect (or has disconnected by itself); and once the backend's
\* disconnect callback has returned, the frontend has been sent
\* postDisConnect unless it was already closed.
C11_OppositeSideDisconnected ==
    /\ (proxy.fpc = "done" /\ proxy.epc = "done") =>
         proxy.bdisc \/ proxy.bpc = "ran"
    /\ proxy.bpc = "ran" => proxy.fdisc \/ proxy.fpc # "open"

\* the connector holds fd open: it created it and has neither closed it nor
\* handed it to a success callback
HeldOpen(fd) == fdSt[fd] \in {"connecting", "w_ok", "w_err"}
\* processConnect got a socket for the request
Created(r) == req[r].n \in ConnectResults

\* C13: the fd processConnect created for a request is handed to on_success
\* once as an owning socket or closed once by the connector, never both and
\* never twice; while the request is pending neither has happened, once it
\* is no longer pending exactly one has; a request that got no socket has
\* neither; and no fd is open in the connector's hands without a pending
\* entry that owns it.
C13_FdHandedOrClosedOnce ==
    /\ \A r \in Reqs :
          /\ ~Created(r) => req[r].closed = 0 /\ req[r].succ = 0
          /\ Created(r) =>
               /\ req[r].closed + req[r].succ <= 1
               /\ Pending(r) => req[r].closed + req[r].succ = 0
               /\ ~Pending(r) => req[r].closed + req[r].succ = 1
    /\ \A fd \in Fds :
          /\ HeldOpen(fd) => mConnectingInfos[fd] # NoInfo
          /\ fdSt[fd] # "leaked"
          /\ fdSt[fd] = "user" => \E r \in Reqs : req[r].succ = 1

\* C13 witness: an fd whose connect ended in an error was closed by the
\* readiness check, once, and is back with the OS
C13_Witness ==
    \E r \in Reqs : /\ req[r].path = "ready_failed"
                    /\ req[r].closed = 1 /\ req[r].succ = 0
                    /\ \A fd \in Fds : fdSt[fd] = "free"

\* the worker runs processConnect for the request at the head of the snapshot
ProcessConnectStep ==
    /\ pc = "drain" /\ snapshot # <<>>
    /\ Head(snapshot).type = "connect"
    /\ snapshot' = Tail(snapshot)

\* C14: processConnect classifies by what SocketCreate and connect answered:
\* no socket: on_failure, nothing recorded, no fd touched; connected:
\* on_success with the fd, nothing recorded; in progress: no callback, one
\* entry {fd, start = now, timeout, callbacks of the request} recorded and
\* the fd registered for Write; any other error: the fd closed, on_failure,
\* nothing recorded.
C14_ProcessConnectClassifies ==
    [][ProcessConnectStep =>
         LET r == Head(snapshot).req
             q == req'[r]
         IN  /\ q.n \in {"create_failed"} \cup ConnectResults
             /\ \A o \in Reqs \ {r} : req'[o] = req[o]
             /\ q.n = "create_failed" =>
                  /\ q.fail = 1 /\ q.succ = 0 /\ q.closed = 0
                  /\ UNCHANGED <<workVars, fdSt>>
             /\ q.n = "connected" =>
                  /\ q.succ = 1 /\ q.fail = 0 /\ q.closed = 0
                  /\ UNCHANGED workVars
                  /\ \E fd \in Fds : /\ fdSt[fd] = "free"
                                     /\ fdSt' = [fdSt EXCEPT ![fd] = "user"]
             /\ q.n = "inprogress" =>
                  /\ q.succ = 0 /\ q.fail = 0 /\ q.closed = 0
                  /\ \E fd \in Fds :
                       /\ fdSt[fd] = "free"
                       /\ fdSt' = [fdSt EXCEPT ![fd] = "connecting"]
                       /\ mConnectingInfos[fd] = NoInfo
                       /\ mConnectingInfos' =
                            [mConnectingInfos EXCEPT ![fd] =
                               [req |-> r, startConnectTime |-> now,
                                timeout |-> req[r].timeout]]
                       /\ fd \notin mConnectingFds
                       /\ mConnectingFds' = mConnectingFds \cup {fd}
                       /\ fd \notin mFDSet
                       /\ mFDSet' = mFDSet \cup {fd}
             /\ q.n = "error" =>
                  /\ q.fail = 1 /\ q.succ = 0 /\ q.closed = 1
                  /\ UNCHANGED <<workVars, fdSt>>]_vars

\* C14 witness: processConnect has just recorded a connect in progress
C14_Witness ==
    /\ pc \in {"drain", "status"}
    /\ \E r \in Reqs, fd \in Fds :
         /\ req[r].n = "inprogress" /\ Callbacks(r) = 0
         /\ mConnectingInfos[fd].req = r
         /\ mConnectingInfos[fd].startConnectTime = now
         /\ fd \in mFDSet /\ fd \in mConnectingFds
         /\ fdSt[fd] = "connecting"

\* the worker runs checkConnectStatus
StatusStep == pc = "status" /\ pc' # pc
\* the poll of this iteration reports fd ready for Write
WriteReady(fd) == fd \in mFDSet /\ fdSt[fd] \in {"w_ok", "w_err"}

\* C15: the status check of an iteration resolves every pending fd that is
\* Write-ready: its entry leaves the table, the fd leaves mConnectingFds and
\* the readiness set, and with SO_ERROR = 0 a socket is made of it and given
\* to on_success, otherwise the fd is closed and on_failure runs; a pending
\* fd that is not Write-ready keeps its entry, its registrations, its state
\* and gets no callback.
C15_ReadyFdsResolved ==
    [][StatusStep =>
         \A fd \in Fds :
            LET info == mConnectingInfos[fd]
                r == info.req
            IN  info # NoInfo =>
                  IF WriteReady(fd)
                  THEN /\ mConnectingInfos'[fd] = NoInfo
                       /\ fd \notin mConnectingFds'
                       /\ fd \notin mFDSet'
                       /\ req'[r].succ + req'[r].fail = 1
                       /\ IF fdSt[fd] = "w_ok"
                          THEN /\ req'[r].succ = 1
                               /\ req'[r].path = "ready_success"
                               /\ req'[r].closed = 0
                               /\ fdSt'[fd] = "user"
                          ELSE /\ req'[r].fail = 1
                               /\ req'[r].path = "ready_failed"
                               /\ req'[r].closed = 1
                               /\ fdSt'[fd] = "free"
                  ELSE /\ mConnectingInfos'[fd] = info
                       /\ (fd \in mConnectingFds') = (fd \in mConnectingFds)
                       /\ (fd \in mFDSet') = (fd \in mFDSet)
                       /\ fdSt'[fd] = fdSt[fd]
                       /\ req'[r] = req[r]]_vars

\* C15 witness: the status check has just handed a ready fd to on_success,
\* and the fd is in no registry any more
C15_Witness ==
    /\ pc = "timeout"
    /\ \E r \in Reqs, fd \in Fds :
         /\ req[r].path = "ready_success" /\ req[r].succ = 1
         /\ fdSt[fd] = "user"
         /\ mConnectingInfos[fd] = NoInfo
         /\ fd \notin mConnectingFds /\ fd \notin mFDSet

\* the worker runs checkTimeout
TimeoutStep == pc = "timeout" /\ pc' # pc
\* the deadline of a pending entry has come
DeadlineReached(info) == info.startConnectTime + info.timeout <= now

\* C16: the timeout scan of an iteration takes every pending entry whose
\* deadline start + timeout is at or before now: the entry leaves the table,
\* the fd leaves mConnectingFds and the readiness set and is closed, and
\* on_failure runs, never on_success; it leaves every other entry as it is;
\* and no other step fails a request by timeout.
C16_TimeoutScan ==
    [][/\ TimeoutStep =>
            \A fd \in Fds :
               LET info == mConnectingInfos[fd]
                   r == info.req
               IN  info # NoInfo =>
                     IF DeadlineReached(info)
                     THEN /\ mConnectingInfos'[fd] = NoInfo
                          /\ fd \notin mConnectingFds'
                          /\ fd \notin mFDSet'
                          /\ fdSt'[fd] = "free"
                          /\ req'[r].fail = 1 /\ req'[r].succ = 0
                          /\ req'[r].closed = 1
                          /\ req'[r].path = "timeout"
                     ELSE /\ mConnectingInfos'[fd] = info
                          /\ fd \in mConnectingFds' /\ fd \in mFDSet'
                          /\ fdSt'[fd] = fdSt[fd]
                          /\ req'[r] = req[r]
       /\ \A r \in Reqs :
            /\ (req'[r].path = "timeout" /\ req[r].path # "timeout") =>
                 /\ TimeoutStep
                 /\ \E fd \in Fds : /\ mConnectingInfos[fd].req = r
                                    /\ now - mConnectingInfos[fd].startConnectTime
                                         >= mConnectingInfos[fd].timeout
            /\ req[r].path = "timeout" => req'[r] = req[r]]_vars

\* C16 witness: the scan has just failed an attempt with a positive timeout
\* whose deadline had come, and its fd is closed
C16_Witness ==
    /\ pc = "while"
    /\ \E r \in Reqs :
         /\ req[r].path = "timeout" /\ req[r].timeout > 0
         /\ req[r].fail = 1 /\ req[r].succ = 0 /\ req[r].closed = 1
         /\ ~Pending(r)
    /\ \A fd \in Fds : fdSt[fd] = "free" /\ fd \notin mFDSet

\* the fds that have an entry in mConnectingInfos
InfoKeys == {fd \in Fds : mConnectingInfos[fd] # NoInfo}

\* C18: between the worker's steps the three registries hold the same fds:
\* mConnectingFds, the keys of mConnectingInfos and the fds registered for
\* Write in the readiness set; and each of these fds is open in the
\* connector's hands: not closed, not handed to a callback.
C18_RegistriesAgree ==
    /\ mConnectingFds = InfoKeys
    /\ mFDSet = InfoKeys
    /\ \A fd \in InfoKeys : HeldOpen(fd)

\* C18 witness: the registries hold an fd whose connect has ended in an error
\* and that the next status check will resolve
C18_Witness ==
    /\ pc = "status"
    /\ \E fd \in Fds : /\ fd \in mConnectingFds /\ fd \in mFDSet
                       /\ fd \in InfoKeys
                       /\ fdSt[fd] = "w_err"

\* a success or failure callback is invoked in this step
CallbackStep ==
    \E r \in Reqs : req'[r].succ + req'[r].fail # req[r].succ + req[r].fail
\* the worker thread is inside its thread function
WorkerRunning == pc \in {"while", "loop", "drain", "status", "timeout", "failall"}

\* C20: a callback is invoked only in a step of the worker thread (inside
\* loop(), checkConnectStatus, checkTimeout or causeAllFailed), while exactly
\* one worker thread exists, and never in the step of an asyncConnect,
\* startWorkerThread or stopWorkerThread call; and whatever starts and stops
\* are called, the connector never has more than one worker thread.
C20_CallbacksOnSingleWorker ==
    [][/\ threads' <= 1
       /\ threads' = (IF mThread' THEN 1 ELSE 0)
       /\ CallbackStep =>
            /\ pc \in {"drain", "status", "timeout", "failall"}
            /\ threads = 1 /\ threads' = 1
            /\ ret' = ret
            /\ UNCHANGED connVars]_vars

\* C20 witness: a second start has returned on a connector whose one worker
\* thread is running and has invoked a callback
C20_Witness ==
    /\ ret.op = "start" /\ ret.pre = "running"
    /\ threads = 1 /\ WorkerRunning
    /\ \E r \in Reqs : Callbacks(r) = 1

\* the worker thread can take its next step
WorkerCanStep == ~crashed /\ WorkerRunning

\* C19 (as claimed): stopWorkerThread always terminates, also when a callback
\* running on the worker thread calls asyncConnect on the same connector
\* during the stop: while a stop waits in join(), the worker thread has
\* ended or can take its next step towards the end of its thread function.
C19_StopAlwaysTerminates ==
    mThreadGuard = "stop" => pc = "exited" \/ WorkerCanStep

\* the last initSSL call was given something that makes it fail
InitMustFail ==
    \/ ssl.ret.certificate = "" \/ ssl.ret.privatekey = ""
    \/ ~ssl.ret.chain \/ ~ssl.ret.key \/ ~ssl.ret.check

\* C17: after any sequence of initSSL and destroySSL calls the helper holds a
\* context exactly when the last initSSL that found it empty returned true
\* and no destroySSL came after; the context it holds is the one live
\* SSL_CTX object, nothing is leaked or freed twice; initSSL on a helper that
\* holds a context returns false and keeps that context; initSSL returns
\* false with no context when a path is empty or the chain, the key or the
\* key check fails; it returns true only with a context; destroySSL leaves
\* no context, also when there was none.
C17_SSLContextLifecycle ==
    ~ssl.crashed =>
        /\ (ssl.mOpenSSLCTX # 0) <=> ssl.expect
        /\ ssl.live = (IF ssl.mOpenSSLCTX # 0 THEN {ssl.mOpenSSLCTX} ELSE {})
        /\ ~ssl.badfree
        /\ ssl.ret.op = "initSSL" =>
             /\ ssl.ret.held # 0 =>
                  ~ssl.ret.res /\ ssl.mOpenSSLCTX = ssl.ret.held
             /\ (ssl.ret.held = 0 /\ InitMustFail) =>
                  ~ssl.ret.res /\ ssl.mOpenSSLCTX = 0
             /\ (ssl.ret.held = 0 /\ ~InitMustFail) => ssl.ret.res
             /\ ssl.ret.res => ssl.mOpenSSLCTX # 0
        /\ ssl.ret.op = "destroySSL" => ssl.mOpenSSLCTX = 0

\* C17 witness: an initSSL with good files was refused by a helper that
\* holds a context, which it still holds after an earlier destroy and init
C17_Witness ==
    /\ ssl.ret.op = "initSSL" /\ ssl.ret.held # 0 /\ ~InitMustFail
    /\ ~ssl.ret.res
    /\ ssl.mOpenSSLCTX = MaxCtx

\* processConnect has run for the request
Processed(r) == req[r].n # "none"
\* the procedure stopWorkerThread posted has run and the stop is not over
StopFlagSet == mThread /\ mIsRun = "false"
\* the worker has read the stop flag at line 339 and left its loop
LeftLoop == pc \in {"failall", "exited"}
\* the connect procedures of a queue, in its order
ConnectReqs(q) == SelectSeq(q, LAMBDA p : p.type = "connect")

====
